---- MODULE Spec2Model ----
(***************************************************************************)
(* A model of result-chain: the Result tagged union, the DataError and     *)
(* ServiceError taxonomies, the ResultChain wrapper (map, mapErr,          *)
(* validate, log, mapAsync, unwrap, toResult, toServiceResult) and         *)
(* enrichErrorContext.                                                     *)
(*                                                                         *)
(* Chain instances live in a heap (`chains`): the index of a chain is its  *)
(* object identity.  Error objects carry an `oid`, their object identity.  *)
(* An optional field (`error?`, `context?`, `source?`) is the empty tuple  *)
(* when undefined and a one-element tuple when set; `data?` is a token of  *)
(* DataVals, "undefined" standing for an absent value.                     *)
(***************************************************************************)
EXTENDS Integers, Sequences, FiniteSets, TLC

\* ------------------------------------------------------------------ bounds
MaxChains == 3
MaxPending == 2
MaxOverrideKeys == 1
MaxRetryAttempts == 3

\* --------------------------------------------------------------- JS values
\* The data values a result carries: undefined, null, 0, and two truthy values.
DataVals == {"undefined", "null", "zero", "one", "two"}

\* JavaScript truthiness of a data value (the `!x` test).
Truthy(v) == v \in {"one", "two"}

DataErrorKind == {"not_found", "invalid", "query", "connection", "unexpected"}

ServiceErrorKind == {"validation", "not_found", "auth", "unexpected", "network"}

\* `x instanceof Error`, `x instanceof DataError`, `x instanceof ServiceError`
InstanceOfError(e) == e.family \in {"DataError", "ServiceError", "Error"}

InstanceOfDataError(e) == e.family = "DataError"

InstanceOfServiceError(e) == e.family = "ServiceError"

\* A value that is not an Error instance (a thrown string, a list of issues):
\* `message` holds its text.
Primitive(oid, text) ==
  [oid |-> oid, family |-> "primitive", kind |-> "", message |-> text,
   context |-> <<>>, source |-> <<>>]

\* new Error(message)
NewError(oid, message) ==
  [oid |-> oid, family |-> "Error", kind |-> "", message |-> message,
   context |-> <<>>, source |-> <<>>]

\* String(x) for a value that is not an Error instance
String(e) == e.message

\* `error instanceof Error ? error : new Error(String(error))`
AsError(oid, e) == IF InstanceOfError(e) THEN e ELSE NewError(oid, String(e))

\* The options bag {context?, source?} of a factory.
NoOptions == [context |-> <<>>, source |-> <<>>]

\* ---------------------------------------------------------------- DataError
DataError(oid, kind, message, options) ==
  [oid |-> oid, family |-> "DataError", kind |-> kind, message |-> message,
   context |-> options.context, source |-> options.source]

DataError_notFound(oid, entity, id, source) ==
  DataError(oid, "not_found", entity \o " not found: " \o id,
            [context |-> <<[k \in {"entity", "id"} |->
                              IF k = "entity" THEN entity ELSE id]>>,
             source |-> source])

DataError_invalid(oid, message, options) == DataError(oid, "invalid", message, options)

DataError_query(oid, message, options) == DataError(oid, "query", message, options)

DataError_connection(oid, message, options) == DataError(oid, "connection", message, options)

DataError_unexpected(oid, message, options) == DataError(oid, "unexpected", message, options)

\* ------------------------------------------------------------- ServiceError
ServiceError(oid, kind, message, options) ==
  [oid |-> oid, family |-> "ServiceError", kind |-> kind, message |-> message,
   context |-> options.context, source |-> options.source]

ServiceError_validation(oid, message, options) == ServiceError(oid, "validation", message, options)

ServiceError_notFound(oid, entity, id, source) ==
  ServiceError(oid, "not_found", entity \o " not found: " \o id,
               [context |-> <<[k \in {"entity", "id"} |->
                                 IF k = "entity" THEN entity ELSE id]>>,
                source |-> source])

ServiceError_auth(oid, message, options) == ServiceError(oid, "auth", message, options)

ServiceError_unexpected(oid, message, options) == ServiceError(oid, "unexpected", message, options)

ServiceError_network(oid, message, options) == ServiceError(oid, "network", message, options)

\* ------------------------------------------------------------------ Result
\* {kind: "success", data}
success(data) == [kind |-> "success", data |-> data, error |-> <<>>]

\* {kind: "error", error}
dataError(error) == [kind |-> "error", data |-> "undefined", error |-> <<error>>]

serviceError(error) == [kind |-> "error", data |-> "undefined", error |-> <<error>>]

\* {kind: "error", error: e} where e may be undefined
ErrorResult(optError) == [kind |-> "error", data |-> "undefined", error |-> optError]

\* ------------------------------------------------- supplied functions (inputs)
\* The functions a caller hands to map and mapAsync, as tables over DataVals:
\* "inc" returns another defined value, "void" returns undefined,
\* "throwError" throws an Error (mapAsync: rejects with it), "throwString"
\* throws a string, "throwOnTwo" throws an Error on "two" only.
Fns == {"inc", "void", "throwError", "throwString", "throwOnTwo"}

Inc(v) ==
  CASE v = "undefined" -> "null"
    [] v = "null" -> "zero"
    [] v = "zero" -> "one"
    [] v = "one" -> "two"
    [] v = "two" -> "zero"

FnThrows(fn, v) ==
  \/ fn \in {"throwError", "throwString"}
  \/ fn = "throwOnTwo" /\ v = "two"

FnValue(fn, v) == IF fn = "void" THEN "undefined" ELSE Inc(v)

FnThrown(fn, oid) ==
  IF fn = "throwString" THEN Primitive(oid, "boom") ELSE NewError(oid, "boom")

\* The schemas a caller hands to validate: safeParse(data) returns
\* {success, data?, error?}.  "accept" returns the data, "coerce" a coerced
\* value, "onlyOne" accepts the value "one" only, "rejectError" fails with an
\* Error instance, "rejectIssues" with a value that is not an Error,
\* "rejectBare" with no error field at all.
Schemas == {"accept", "coerce", "onlyOne", "rejectError", "rejectIssues", "rejectBare"}

safeParse(schema, data, oid) ==
  CASE schema = "accept" -> [success |-> TRUE, data |-> data, error |-> <<>>]
    [] schema = "coerce" -> [success |-> TRUE, data |-> Inc(data), error |-> <<>>]
    [] schema = "onlyOne" ->
         IF data = "one"
         THEN [success |-> TRUE, data |-> data, error |-> <<>>]
         ELSE [success |-> FALSE, data |-> "undefined",
               error |-> <<NewError(oid, "expected one")>>]
    [] schema = "rejectError" ->
         [success |-> FALSE, data |-> "undefined", error |-> <<NewError(oid, "invalid input")>>]
    [] schema = "rejectIssues" ->
         [success |-> FALSE, data |-> "undefined", error |-> <<Primitive(oid, "issues")>>]
    [] schema = "rejectBare" ->
         [success |-> FALSE, data |-> "undefined", error |-> <<>>]

\* ------------------------------------------------------- outcomes of a call
\* A call returns a chain wrapping `result` (`this` itself when isThis), or
\* lets `escaped` escape; fnCalls counts the calls of the supplied function or
\* safeParse, loggerCalls those of the logger, used the objects allocated.
\* `assigned` is the value the call assigns to this.result, if it assigns one
\* (the field is readonly and no method writes it).
NoResult == [kind |-> "none", data |-> "undefined", error |-> <<>>]

Returned(result, fnCalls, used) ==
  [threw |-> FALSE, escaped |-> <<>>, result |-> result, isThis |-> FALSE,
   fnCalls |-> fnCalls, loggerCalls |-> 0, used |-> used, assigned |-> <<>>]

Threw(escaped, fnCalls, used) ==
  [threw |-> TRUE, escaped |-> <<escaped>>, result |-> NoResult, isThis |-> FALSE,
   fnCalls |-> fnCalls, loggerCalls |-> 0, used |-> used, assigned |-> <<>>]

\* TypeError raised by the runtime
TypeError(oid, message) ==
  [oid |-> oid, family |-> "Error", kind |-> "", message |-> "TypeError: " \o message,
   context |-> <<>>, source |-> <<>>]

\* -------------------------------------------------------------- ResultChain
\* The catch block of map and mapAsync:
\*   const err = error instanceof Error ? error : new Error(String(error));
\*   (this.result.error?.constructor as any).unexpected(message, {source: err})
\* `undefined.unexpected` and `Error.unexpected` are not callable: a TypeError
\* leaves the catch block.
CatchTransform(r, thrown, message, oid) ==
  LET err == AsError(oid, thrown)
      options == [context |-> <<>>, source |-> <<err>>]
  IN  IF r.error = <<>>
      THEN Threw(TypeError(oid + 1, "Cannot read properties of undefined"), 1, 0)
      ELSE IF InstanceOfDataError(r.error[1])
      THEN Returned(ErrorResult(<<DataError_unexpected(oid + 1, message, options)>>), 1, 2)
      ELSE IF InstanceOfServiceError(r.error[1])
      THEN Returned(ErrorResult(<<ServiceError_unexpected(oid + 1, message, options)>>), 1, 2)
      ELSE Threw(TypeError(oid + 1, "unexpected is not a function"), 1, 0)

\* map with the error of an error chain dropped instead of passed on
map_dropsError(r, fn, oid) ==
  IF r.kind = "success" /\ r.data # "undefined"
  THEN IF ~FnThrows(fn, r.data)
       THEN Returned(success(FnValue(fn, r.data)), 1, 0)
       ELSE CatchTransform(r, FnThrown(fn, oid), "Error transforming data", oid + 1)
  ELSE Returned(ErrorResult(<<>>), 0, 0)

map(r, fn, oid) ==
  IF r.kind = "success" /\ r.data # "undefined"
  THEN IF ~FnThrows(fn, r.data)
       THEN Returned(success(FnValue(fn, r.data)), 1, 0)
       ELSE CatchTransform(r, FnThrown(fn, oid), "Error transforming data", oid + 1)
  ELSE Returned(ErrorResult(r.error), 0, 0)

\* mapAsync up to its await: TRUE when fn is called and the call suspends.
mapAsyncSuspends(r) == r.kind = "success" /\ r.data # "undefined"

\* mapAsync storing the transformed result in the chain it was called on
mapAsync_inPlace(r, fn, oid) ==
  IF r.kind = "success" /\ r.data # "undefined"
  THEN IF ~FnThrows(fn, r.data)
       THEN [Returned(success(FnValue(fn, r.data)), 1, 0) EXCEPT
               !.isThis = TRUE, !.assigned = <<success(FnValue(fn, r.data))>>]
       ELSE CatchTransform(r, FnThrown(fn, oid),
                           "Error transforming data asynchronously", oid + 1)
  ELSE Returned(ErrorResult(r.error), 0, 0)

\* mapAsync from the settling of fn's promise (or, on an error chain, the whole call).
mapAsync(r, fn, oid) ==
  IF r.kind = "success" /\ r.data # "undefined"
  THEN IF ~FnThrows(fn, r.data)
       THEN Returned(success(FnValue(fn, r.data)), 1, 0)
       ELSE CatchTransform(r, FnThrown(fn, oid),
                           "Error transforming data asynchronously", oid + 1)
  ELSE Returned(ErrorResult(r.error), 0, 0)

\* validate returning the original data instead of the parsed value
validate_keepsData(r, schema, errorMessage, oid) ==
  IF r.kind # "success" \/ ~Truthy(r.data)
  THEN Returned(r, 0, 0)
  ELSE LET validation == safeParse(schema, r.data, oid)
       IN  IF ~validation.success
           THEN LET source ==
                      IF validation.error # <<>> /\ InstanceOfError(validation.error[1])
                      THEN validation.error[1]
                      ELSE NewError(oid + 1, IF validation.error = <<>> THEN "undefined"
                                             ELSE String(validation.error[1]))
                    error == ServiceError_validation(oid + 2, errorMessage,
                               [context |-> <<[k \in {"validationErrors"} |-> validation.error]>>,
                                source |-> <<source>>])
                IN  Returned(ErrorResult(<<error>>), 1, 3)
           ELSE Returned(success(r.data), 1, 0)

validate(r, schema, errorMessage, oid) ==
  IF r.kind # "success" \/ ~Truthy(r.data)
  THEN Returned(r, 0, 0)
  ELSE LET validation == safeParse(schema, r.data, oid)
       IN  IF ~validation.success
           THEN LET source ==
                      IF validation.error # <<>> /\ InstanceOfError(validation.error[1])
                      THEN validation.error[1]
                      ELSE NewError(oid + 1, IF validation.error = <<>> THEN "undefined"
                                             ELSE String(validation.error[1]))
                    error == ServiceError_validation(oid + 2, errorMessage,
                               [context |-> <<[k \in {"validationErrors"} |-> validation.error]>>,
                                source |-> <<source>>])
                IN  Returned(ErrorResult(<<error>>), 1, 3)
           ELSE Returned(success(validation.data), 1, 0)

\* `dataError.context?.entity && dataError.context?.id`
HasEntityAndId(context) ==
  /\ context # <<>>
  /\ {"entity", "id"} \subseteq DOMAIN context[1]
  /\ context[1]["entity"] # ""
  /\ context[1]["id"] # ""

defaultErrorMap ==
  [k \in DataErrorKind |->
     CASE k = "not_found" -> "not_found"
       [] k = "invalid" -> "validation"
       [] k = "query" -> "unexpected"
       [] k = "connection" -> "network"
       [] k = "unexpected" -> "unexpected"]

\* the spread written the other way round: { ...errorMap, ...defaultErrorMap }
finalErrorMap_defaultWins(errorMap) ==
  [k \in DataErrorKind |-> defaultErrorMap[k]]

\* { ...defaultErrorMap, ...errorMap }
finalErrorMap(errorMap) ==
  [k \in DataErrorKind |-> IF k \in DOMAIN errorMap THEN errorMap[k] ELSE defaultErrorMap[k]]

\* errorMap: a partial map DataErrorKind -> ServiceErrorKind; defaultMessage: optional.
mapErr(r, errorMap, defaultMessage, oid) ==
  IF r.kind = "success" THEN Returned(r, 0, 0)
  ELSE IF r.error = <<>>
  THEN Returned(ErrorResult(<<ServiceError_unexpected(oid, "Unknown error occurred", NoOptions)>>), 0, 1)
  ELSE IF ~InstanceOfDataError(r.error[1])
  THEN IF InstanceOfServiceError(r.error[1])
       THEN Returned(ErrorResult(r.error), 0, 0)
       ELSE Returned(ErrorResult(<<ServiceError_unexpected(oid + 1, "Unknown error type",
                        [context |-> <<>>, source |-> <<AsError(oid, r.error[1])>>])>>), 0, 2)
  ELSE LET dataErr == r.error[1]
           serviceErrorKind == finalErrorMap(errorMap)[dataErr.kind]
           message == IF defaultMessage # <<>> /\ defaultMessage[1] # ""
                      THEN defaultMessage[1] ELSE dataErr.message
           options == [context |-> dataErr.context, source |-> <<dataErr>>]
           svcError ==
             CASE serviceErrorKind = "not_found" ->
                    IF HasEntityAndId(dataErr.context)
                    THEN ServiceError_notFound(oid, dataErr.context[1]["entity"],
                                               dataErr.context[1]["id"], <<dataErr>>)
                    ELSE ServiceError_notFound(oid, "item", "unknown", <<dataErr>>)
               [] serviceErrorKind = "validation" -> ServiceError_validation(oid, message, options)
               [] serviceErrorKind = "auth" -> ServiceError_auth(oid, message, options)
               [] serviceErrorKind = "network" -> ServiceError_network(oid, message, options)
               [] OTHER -> ServiceError_unexpected(oid, message, options)
       IN  Returned(ErrorResult(<<svcError>>), 0, 1)

\* log writing the data it prepared for the logger back into this.result
log_assigns(r) ==
  LET calls == IF r.kind = "error" /\ r.error # <<>> THEN 1
               ELSE IF r.kind = "success" /\ r.data # "undefined" THEN 1
               ELSE 0
  IN  [threw |-> FALSE, escaped |-> <<>>, result |-> r, isThis |-> TRUE,
       fnCalls |-> 0, loggerCalls |-> calls, used |-> 0,
       assigned |-> IF r.kind = "success" /\ r.data # "undefined"
                    THEN <<[r EXCEPT !.data = "null"]>> ELSE <<>>]

\* log: the logger is called in the two emitting branches; returns `this`.
log(r) ==
  LET calls == IF r.kind = "error" /\ r.error # <<>> THEN 1
               ELSE IF r.kind = "success" /\ r.data # "undefined" THEN 1
               ELSE 0
  IN  [threw |-> FALSE, escaped |-> <<>>, result |-> r, isThis |-> TRUE,
       fnCalls |-> 0, loggerCalls |-> calls, used |-> 0, assigned |-> <<>>]

unwrap(r) == r

toResult(r) ==
  IF r.kind = "success" THEN success(r.data) ELSE ErrorResult(r.error)

\* toServiceResult returning the carried error as it is, like toResult
toServiceResult_noWrap(r, oid) ==
  IF r.kind = "success" THEN success(r.data) ELSE ErrorResult(r.error)

toServiceResult(r, oid) ==
  IF r.kind = "success" THEN success(r.data)
  ELSE IF r.error # <<>> /\ InstanceOfServiceError(r.error[1])
  THEN ErrorResult(r.error)
  ELSE ErrorResult(<<ServiceError_unexpected(oid,
           IF r.error # <<>> /\ InstanceOfError(r.error[1]) THEN r.error[1].message
           ELSE "Unknown error",
           [context |-> <<>>,
            source |-> IF r.error # <<>> /\ InstanceOfError(r.error[1]) THEN r.error ELSE <<>>])>>)

\* ------------------------------------------------------- enrichErrorContext
\* { ...(error.context || {}), ...additionalContext }
MergeContext(context, additionalContext) ==
  LET old == IF context = <<>> THEN [k \in {} |-> ""] ELSE context[1]
  IN  [k \in (DOMAIN old) \union (DOMAIN additionalContext) |->
         IF k \in DOMAIN additionalContext THEN additionalContext[k] ELSE old[k]]

\* `newContext.k` is truthy
TruthyKey(ctx, k) == k \in DOMAIN ctx /\ ctx[k] # ""

EnrichReturned(error) == [threw |-> FALSE, escaped |-> <<>>, error |-> <<error>>]

EnrichThrew(escaped) == [threw |-> TRUE, escaped |-> <<escaped>>, error |-> <<>>]

\* errors/error-utils.ts: dispatches on DataError[error.kind] and
\* ServiceError[error.kind]; neither class has a static member named
\* "not_found" (the factory is notFound), so that call raises a TypeError.
enrichErrorContext(optError, additionalContext, oid) ==
  IF optError = <<>>
  THEN EnrichThrew(NewError(oid, "Cannot enrich context of undefined error"))
  ELSE LET error == optError[1]
           newContext == MergeContext(error.context, additionalContext)
           options == [context |-> <<newContext>>, source |-> error.source]
       IN  IF InstanceOfDataError(error)
           THEN CASE error.kind = "invalid" -> EnrichReturned(DataError_invalid(oid, error.message, options))
                  [] error.kind = "query" -> EnrichReturned(DataError_query(oid, error.message, options))
                  [] error.kind = "connection" -> EnrichReturned(DataError_connection(oid, error.message, options))
                  [] error.kind = "unexpected" -> EnrichReturned(DataError_unexpected(oid, error.message, options))
                  [] OTHER -> EnrichThrew(TypeError(oid, "DataError[error.kind] is not a function"))
           ELSE IF InstanceOfServiceError(error)
           THEN IF error.kind = "not_found" /\ TruthyKey(newContext, "entity") /\ TruthyKey(newContext, "id")
                THEN EnrichReturned(ServiceError_notFound(oid, newContext["entity"], newContext["id"], error.source))
                ELSE CASE error.kind = "validation" -> EnrichReturned(ServiceError_validation(oid, error.message, options))
                       [] error.kind = "auth" -> EnrichReturned(ServiceError_auth(oid, error.message, options))
                       [] error.kind = "unexpected" -> EnrichReturned(ServiceError_unexpected(oid, error.message, options))
                       [] error.kind = "network" -> EnrichReturned(ServiceError_network(oid, error.message, options))
                       [] OTHER -> EnrichThrew(TypeError(oid, "ServiceError[error.kind] is not a function"))
           ELSE EnrichReturned(error)

\* The second definition of enrichErrorContext, a switch over error.kind.
enrichErrorContext2(optError, additionalContext, oid) ==
  IF optError = <<>>
  THEN EnrichThrew(NewError(oid, "Cannot enrich context of undefined error"))
  ELSE LET error == optError[1]
           newContext == MergeContext(error.context, additionalContext)
           options == [context |-> <<newContext>>, source |-> error.source]
           entity == IF TruthyKey(newContext, "entity") THEN newContext["entity"] ELSE "item"
           id == IF TruthyKey(newContext, "id") THEN newContext["id"] ELSE "unknown"
       IN  IF InstanceOfDataError(error)
           THEN CASE error.kind = "not_found" -> EnrichReturned(DataError_notFound(oid, entity, id, error.source))
                  [] error.kind = "invalid" -> EnrichReturned(DataError_invalid(oid, error.message, options))
                  [] error.kind = "query" -> EnrichReturned(DataError_query(oid, error.message, options))
                  [] error.kind = "connection" -> EnrichReturned(DataError_connection(oid, error.message, options))
                  [] OTHER -> EnrichReturned(DataError_unexpected(oid, error.message, options))
           ELSE IF InstanceOfServiceError(error)
           THEN CASE error.kind = "not_found" -> EnrichReturned(ServiceError_notFound(oid, entity, id, error.source))
                  [] error.kind = "validation" -> EnrichReturned(ServiceError_validation(oid, error.message, options))
                  [] error.kind = "auth" -> EnrichReturned(ServiceError_auth(oid, error.message, options))
                  [] error.kind = "network" -> EnrichReturned(ServiceError_network(oid, error.message, options))
                  [] OTHER -> EnrichReturned(ServiceError_unexpected(oid, error.message, options))
           ELSE EnrichReturned(error)

\* ------------------------------------------------------------ state machine
VARIABLES
  chains,   \* heap of ResultChain instances: chains[i] is the result chain i wraps
  pending,  \* mapAsync calls suspended at `await fn(data)`: [recv, fn]
  last,     \* the last call: [op, recv, arg, ret, out]
  rt,       \* the running call of retry: its locals and what it did so far
  api       \* the running call of fromApiResponse

vars == <<chains, pending, last, rt, api>>

\* -------------------------------------------------------------------- retry
\* Defaults of the options of retry.
DefaultMaxAttempts == 3

DefaultDelayMs == 1000

DefaultBackoffFactor == 2

\* Math.pow(base, exponent) for a natural exponent
RECURSIVE Pow(_, _)
Pow(base, exponent) == IF exponent = 0 THEN 1 ELSE base * Pow(base, exponent - 1)

\* The options a caller hands to retry; an omitted option is <<>>.
\* shouldRetry: omitted (the default, always true), "never", "firstOnly" (true
\* on attempt 1 only), "onConnection" (true for connection errors only).
RetryOptions ==
  [maxAttempts : {<<>>} \union {<<n>> : n \in 0..MaxRetryAttempts},
   delayMs : {<<>>, <<0>>, <<100>>},
   backoffFactor : {<<>>, <<1>>, <<3>>},
   shouldRetry : {<<>>, <<"never">>, <<"firstOnly">>, <<"onConnection">>}]

NoRetryOptions ==
  [maxAttempts |-> <<>>, delayMs |-> <<>>, backoffFactor |-> <<>>, shouldRetry |-> <<>>]

\* const { maxAttempts = 3, delayMs = 1000, backoffFactor = 2, shouldRetry = () => true } = options
maxAttempts(options) ==
  IF options.maxAttempts = <<>> THEN DefaultMaxAttempts ELSE options.maxAttempts[1]

delayMs(options) == IF options.delayMs = <<>> THEN DefaultDelayMs ELSE options.delayMs[1]

backoffFactor(options) ==
  IF options.backoffFactor = <<>> THEN DefaultBackoffFactor ELSE options.backoffFactor[1]

shouldRetry(options, optError, attempt) ==
  IF options.shouldRetry = <<>> THEN TRUE
  ELSE CASE options.shouldRetry[1] = "never" -> FALSE
         [] options.shouldRetry[1] = "firstOnly" -> attempt = 1
         [] options.shouldRetry[1] = "onConnection" ->
              optError # <<>> /\ optError[1].kind = "connection"

\* the exponent taken one too high: Math.pow(backoffFactor, attempt)
backoffDelay_fromAttempt(options, attempt) ==
  delayMs(options) * Pow(backoffFactor(options), attempt)

\* const delay = delayMs * Math.pow(backoffFactor, attempt - 1)
backoffDelay(options, attempt) ==
  delayMs(options) * Pow(backoffFactor(options), attempt - 1)

\* What one invocation of the operation may do: resolve to a success result,
\* resolve to an error result (the error object is new at every invocation),
\* or reject.
OperationOutcomes(invocation) ==
  {[rejects |-> FALSE, result |-> success("one")],
   [rejects |-> FALSE, result |-> dataError(DataError_query(invocation, "query failed", NoOptions))],
   [rejects |-> FALSE, result |-> dataError(DataError_connection(invocation, "no route", NoOptions))],
   [rejects |-> TRUE, result |-> NoResult]}

\* let lastResult = { kind: "error", error: undefined }
RetryIdle ==
  [pc |-> "idle", options |-> NoRetryOptions, attempt |-> 0,
   lastResult |-> ErrorResult(<<>>),
   results |-> <<>>,          \* what each invocation of the operation gave
   inflight |-> 0,            \* invocations started and not settled
   shouldRetryCalls |-> <<>>, \* the calls of shouldRetry: [attempt, error, answer]
   delays |-> <<>>,           \* the timers set: [attempt, ms]
   returned |-> <<>>,         \* the value retry resolved to
   rejected |-> FALSE]        \* retry's promise rejected

\* the loop head written `attempt < maxAttempts`
RetryLoop_stopsEarly(r, attempt) ==
  IF attempt < maxAttempts(r.options)
  THEN [r EXCEPT !.pc = "awaitOperation", !.attempt = attempt, !.inflight = r.inflight + 1]
  ELSE [r EXCEPT !.pc = "done", !.attempt = attempt, !.returned = <<r.lastResult>>]

\* The loop head `attempt <= maxAttempts` followed by `await operation()`, or
\* the `return lastResult` after the loop.
RetryLoop(r, attempt) ==
  IF attempt <= maxAttempts(r.options)
  THEN [r EXCEPT !.pc = "awaitOperation", !.attempt = attempt, !.inflight = r.inflight + 1]
  ELSE [r EXCEPT !.pc = "done", !.attempt = attempt, !.returned = <<r.lastResult>>]

\* retry(operation, options) up to its first await
RetryCall(options) ==
  /\ rt.pc = "idle"
  /\ rt' = RetryLoop([rt EXCEPT !.options = options], 1)
  /\ UNCHANGED <<chains, pending, last, api>>

\* `lastResult = await operation()` and the loop body after it
OperationSettles(outcome) ==
  /\ rt.pc = "awaitOperation"
  /\ LET settled == [rt EXCEPT !.inflight = rt.inflight - 1,
                               !.results = Append(rt.results, outcome)]
     IN  IF outcome.rejects
         THEN rt' = [settled EXCEPT !.pc = "done", !.rejected = TRUE]
         ELSE LET r == [settled EXCEPT !.lastResult = outcome.result]
              IN  IF outcome.result.kind = "success"
                  THEN rt' = [r EXCEPT !.pc = "done", !.returned = <<outcome.result>>]
                  ELSE IF r.attempt < maxAttempts(r.options)
                  THEN LET answer == shouldRetry(r.options, outcome.result.error, r.attempt)
                           asked == [r EXCEPT !.shouldRetryCalls =
                                       Append(r.shouldRetryCalls,
                                              [attempt |-> r.attempt,
                                               error |-> outcome.result.error,
                                               answer |-> answer])]
                       IN  IF answer
                           THEN rt' = [asked EXCEPT
                                         !.pc = "sleeping",
                                         !.delays = Append(asked.delays,
                                            [attempt |-> r.attempt,
                                             ms |-> backoffDelay(r.options, r.attempt)])]
                           ELSE rt' = [asked EXCEPT !.pc = "done", !.returned = <<asked.lastResult>>]
                  ELSE rt' = [r EXCEPT !.pc = "done", !.returned = <<r.lastResult>>]
  /\ UNCHANGED <<chains, pending, last, api>>

\* the timer of the backoff fires: `continue`, attempt++
TimerFires ==
  /\ rt.pc = "sleeping"
  /\ rt' = RetryLoop(rt, rt.attempt + 1)
  /\ UNCHANGED <<chains, pending, last, api>>

\* ---------------------------------------------------------- fromApiResponse
\* The responses handed to fromApiResponse: {ok, status, statusText, json()}.
Responses ==
  [ok : BOOLEAN, status : {200, 404, 503}, statusText : {"OK", "Not Found"}]

\* What response.json() may do: resolve to a decoded body, reject with an
\* Error (a SyntaxError, a network error) or with a value that is no Error.
JsonOutcomes ==
  {[rejects |-> FALSE, body |-> b, thrown |-> <<>>] : b \in {"null", "one", "two"}}
    \union {[rejects |-> TRUE, body |-> "undefined", thrown |-> <<NewError(1, "Unexpected token")>>],
            [rejects |-> TRUE, body |-> "undefined", thrown |-> <<Primitive(1, "aborted")>>]}

\* options?: {networkErrorMessage?, parseErrorMessage?}
ApiOptions ==
  {[networkErrorMessage |-> <<>>, parseErrorMessage |-> <<>>],
   [networkErrorMessage |-> <<"API unreachable">>, parseErrorMessage |-> <<"bad payload">>]}

networkErrorMessage(options) ==
  IF options.networkErrorMessage = <<>> THEN "Failed to connect to API"
  ELSE options.networkErrorMessage[1]

parseErrorMessage(options) ==
  IF options.parseErrorMessage = <<>> THEN "Failed to parse API response"
  ELSE options.parseErrorMessage[1]

ApiIdle ==
  [pc |-> "idle",
   response |-> [ok |-> TRUE, status |-> 200, statusText |-> "OK"],
   parser |-> "inc",
   options |-> [networkErrorMessage |-> <<>>, parseErrorMessage |-> <<>>],
   json |-> <<>>,          \* how response.json() settled
   parserCalls |-> 0,
   returned |-> <<>>,      \* the result the call resolved to
   rejected |-> FALSE]     \* the call's promise rejected

\* The branch `if (!response.ok)` after `await response.json()` settled: body
\* fetch failures are ignored.
ErrorBranch(response, outcome) ==
  LET base == [k \in {"status", "statusText"} |->
                 IF k = "status" THEN <<response.status>> ELSE <<response.statusText>>]
      errorContext ==
        IF outcome.rejects THEN base
        ELSE [k \in {"status", "statusText", "body"} |->
                IF k = "body" THEN <<outcome.body>> ELSE base[k]]
  IN  dataError(DataError_query(3,
        "API returned error: " \o ToString(response.status) \o " " \o response.statusText,
        [context |-> <<errorContext>>, source |-> <<>>]))

\* the parser's failure left to the outer catch: no try around parser(data)
OkBranch_noInnerTry(parser, options, outcome) ==
  IF outcome.rejects
  THEN dataError(DataError_connection(3, networkErrorMessage(options),
         [context |-> <<>>, source |-> <<AsError(2, outcome.thrown[1])>>]))
  ELSE IF FnThrows(parser, outcome.body)
  THEN dataError(DataError_connection(3, networkErrorMessage(options),
         [context |-> <<>>, source |-> <<AsError(2, FnThrown(parser, 1))>>]))
  ELSE success(FnValue(parser, outcome.body))

\* The branch after `const data = await response.json()` settled: a rejection
\* goes to the outer catch, a parser failure to the inner one.
OkBranch(parser, options, outcome) ==
  IF outcome.rejects
  THEN dataError(DataError_connection(3, networkErrorMessage(options),
         [context |-> <<>>, source |-> <<AsError(2, outcome.thrown[1])>>]))
  ELSE IF FnThrows(parser, outcome.body)
  THEN dataError(DataError_invalid(3, parseErrorMessage(options),
         [context |-> <<[k \in {"responseData"} |-> <<outcome.body>>]>>,
          source |-> <<AsError(2, FnThrown(parser, 1))>>]))
  ELSE success(FnValue(parser, outcome.body))

\* fromApiResponse(response, parser, options) up to `await response.json()`
FromApiResponse(response, parser, options) ==
  /\ api.pc = "idle"
  /\ api' = [api EXCEPT !.pc = IF ~response.ok THEN "awaitErrorBody" ELSE "awaitBody",
                        !.response = response, !.parser = parser, !.options = options]
  /\ UNCHANGED <<chains, pending, last, rt>>

\* response.json() settles and the call runs to its return
JsonSettles(outcome) ==
  /\ api.pc \in {"awaitErrorBody", "awaitBody"}
  /\ api' = [api EXCEPT
               !.pc = "done",
               !.json = <<outcome>>,
               !.parserCalls = IF api.pc = "awaitBody" /\ ~outcome.rejects THEN 1 ELSE 0,
               !.returned = IF api.pc = "awaitErrorBody"
                            THEN <<ErrorBranch(api.response, outcome)>>
                            ELSE <<OkBranch(api.parser, api.options, outcome)>>]
  /\ UNCHANGED <<chains, pending, last, rt>>

\* ------------------------------------------------- inputs and chain actions
\* Object identities for the objects a call allocates: above every object
\* held by the heap.
FreshOid == 3 * Len(chains) + 1

\* Results handed to chain(): built by success(), dataError(), serviceError()
\* from the factories, and an error result whose error is a plain Error.
OrderContext == [k \in {"entity", "id"} |-> IF k = "entity" THEN "User" ELSE "1"]

TableContext == [k \in {"table"} |-> "orders"]

InputErrors ==
  {DataError_notFound(1, "User", "1", <<>>),
   DataError_notFound(1, "Order", "9", <<NewError(2, "cause")>>),
   DataError_invalid(1, "bad row", [context |-> <<TableContext>>, source |-> <<>>]),
   DataError_query(1, "query failed", NoOptions),
   DataError_query(1, "query failed", [context |-> <<OrderContext>>, source |-> <<NewError(2, "cause")>>]),
   DataError_connection(1, "no route", NoOptions),
   DataError_unexpected(1, "boom", NoOptions),
   ServiceError_validation(1, "bad input", [context |-> <<TableContext>>, source |-> <<>>]),
   ServiceError_notFound(1, "User", "1", <<>>),
   ServiceError_auth(1, "denied", NoOptions),
   ServiceError_network(1, "offline", NoOptions),
   ServiceError_unexpected(1, "boom", [context |-> <<>>, source |-> <<NewError(2, "cause")>>]),
   NewError(1, "plain")}

InputResults ==
  {success(v) : v \in DataVals} \union {ErrorResult(<<e>>) : e \in InputErrors}

\* Partial override maps handed to mapErr by the chain's callers.
ChainErrorMaps ==
  {[k \in {} |-> "auth"],
   [k \in {"query"} |-> "auth"],
   [k \in {"not_found", "invalid"} |-> IF k = "not_found" THEN "validation" ELSE "not_found"]}

DefaultMessages == {<<>>, <<"custom message">>}

AdditionalContexts ==
  {[k \in {"entity", "id"} |-> IF k = "entity" THEN "Order" ELSE "9"],
   [k \in {"id"} |-> "9"],
   [k \in {"note"} |-> "retry"]}

NoCall == [op |-> "none", recv |-> 0, arg |-> "", ret |-> 0, out |-> Returned(NoResult, 0, 0)]

Init ==
  /\ chains = <<>>
  /\ pending = <<>>
  /\ last = NoCall
  /\ rt = RetryIdle
  /\ api = ApiIdle

Room == Len(chains) + Len(pending) < MaxChains

\* The heap after a call on chain c with outcome out, and the chain returned.
HeapAfter(c, out) ==
  LET kept == IF out.assigned = <<>> THEN chains
              ELSE [chains EXCEPT ![c] = out.assigned[1]]
  IN  IF out.threw \/ out.isThis THEN kept ELSE Append(kept, out.result)

ReturnedChain(c, out) ==
  IF out.threw THEN 0 ELSE IF out.isThis THEN c ELSE Len(chains) + 1

Call(op, c, arg, out) ==
  /\ chains' = HeapAfter(c, out)
  /\ UNCHANGED <<rt, api>>
  /\ last' = [op |-> op, recv |-> c, arg |-> arg, ret |-> ReturnedChain(c, out), out |-> out]

\* chain(result)
chain(result) ==
  /\ chains = <<>>
  /\ chains' = <<result>>
  /\ last' = [op |-> "chain", recv |-> 0, arg |-> "", ret |-> 1, out |-> Returned(result, 0, 0)]
  /\ UNCHANGED <<pending, rt, api>>

Map(c, fn) ==
  /\ Room
  /\ Call("map", c, fn, map(chains[c], fn, FreshOid))
  /\ UNCHANGED pending

MapErr(c, errorMap, defaultMessage) ==
  /\ Room
  /\ Call("mapErr", c, <<errorMap, defaultMessage>>,
          mapErr(chains[c], errorMap, defaultMessage, FreshOid))
  /\ UNCHANGED pending

Validate(c, schema) ==
  /\ Room
  /\ Call("validate", c, schema, validate(chains[c], schema, "Validation failed", FreshOid))
  /\ UNCHANGED pending

Log(c) ==
  /\ Call("log", c, "", log(chains[c]))
  /\ UNCHANGED pending

\* mapAsync up to its first suspension: on a success chain with data, fn is
\* called and the call waits for its promise; otherwise the call completes.
MapAsyncCall(c, fn) ==
  /\ Room
  /\ IF mapAsyncSuspends(chains[c])
     THEN /\ pending' = Append(pending, [recv |-> c, fn |-> fn])
          /\ last' = [op |-> "mapAsyncCall", recv |-> c, arg |-> fn, ret |-> 0,
                      out |-> Returned(NoResult, 1, 0)]
          /\ UNCHANGED <<chains, rt, api>>
     ELSE /\ Call("mapAsync", c, fn, mapAsync(chains[c], fn, FreshOid))
          /\ UNCHANGED pending

\* The promise of a suspended mapAsync settles; promises settle in any order.
MapAsyncSettle(i) ==
  LET p == pending[i]
  IN  /\ Call("mapAsync", p.recv, p.fn, mapAsync(chains[p.recv], p.fn, FreshOid))
      /\ pending' = [j \in 1..(Len(pending) - 1) |-> IF j < i THEN pending[j] ELSE pending[j + 1]]

Terminal(op, c, value) ==
  /\ last' = [op |-> op, recv |-> c, arg |-> "", ret |-> 0,
              out |-> [threw |-> FALSE, escaped |-> <<>>, value |-> value]]
  /\ UNCHANGED <<chains, pending, rt, api>>

Unwrap(c) == Terminal("unwrap", c, unwrap(chains[c]))

ToResult(c) == Terminal("toResult", c, toResult(chains[c]))

ToServiceResult(c) == Terminal("toServiceResult", c, toServiceResult(chains[c], FreshOid))

\* enrichErrorContext applied to the error a chain carries
EnrichErrorContext(c, additionalContext) ==
  /\ last' = [op |-> "enrichErrorContext", recv |-> c, arg |-> additionalContext, ret |-> 0,
              out |-> enrichErrorContext(chains[c].error, additionalContext, FreshOid)]
  /\ UNCHANGED <<chains, pending, rt, api>>

EnrichErrorContext2(c, additionalContext) ==
  /\ last' = [op |-> "enrichErrorContext2", recv |-> c, arg |-> additionalContext, ret |-> 0,
              out |-> enrichErrorContext2(chains[c].error, additionalContext, FreshOid)]
  /\ UNCHANGED <<chains, pending, rt, api>>

Next ==
  \/ \E result \in InputResults : chain(result)
  \/ \E c \in 1..Len(chains), fn \in Fns : Map(c, fn)
  \/ \E c \in 1..Len(chains), errorMap \in ChainErrorMaps, defaultMessage \in DefaultMessages :
        MapErr(c, errorMap, defaultMessage)
  \/ \E c \in 1..Len(chains), schema \in Schemas : Validate(c, schema)
  \/ \E c \in 1..Len(chains) : Log(c)
  \/ \E c \in 1..Len(chains), fn \in Fns : MapAsyncCall(c, fn)
  \/ \E i \in 1..Len(pending) : MapAsyncSettle(i)
  \/ \E c \in 1..Len(chains) : Unwrap(c)
  \/ \E c \in 1..Len(chains) : ToResult(c)
  \/ \E c \in 1..Len(chains) : ToServiceResult(c)
  \/ \E c \in 1..Len(chains), additionalContext \in AdditionalContexts :
        EnrichErrorContext(c, additionalContext)
  \/ \E c \in 1..Len(chains), additionalContext \in AdditionalContexts :
        EnrichErrorContext2(c, additionalContext)

Spec == Init /\ [][Next]_vars

NextRetry ==
  \/ \E options \in RetryOptions : RetryCall(options)
  \/ \E outcome \in OperationOutcomes(Len(rt.results) + 1) : OperationSettles(outcome)
  \/ TimerFires

SpecRetry == Init /\ [][NextRetry]_vars

NextApi ==
  \/ \E response \in Responses, parser \in Fns, options \in ApiOptions :
        FromApiResponse(response, parser, options)
  \/ \E outcome \in JsonOutcomes : JsonSettles(outcome)

SpecApi == Init /\ [][NextApi]_vars

\* ------------------------------------------------------------------ claims
ChainOps == {"map", "mapErr", "validate", "log", "mapAsync"}

\* The receiver of the last call and the chain it returned.
Recv == chains[last.recv]

Ret == chains[last.ret]

\* The identity the last call gave to the first object it allocated.
CallOid == 3 * (last.ret - 1) + 1

\* C1: for every success result r and every f that does not throw on r.data,
\* chain(r).map(f).unwrap() is {kind: "success", data: f(r.data)}, at the first
\* and at every later map step.
C1_MapAppliesFn ==
  (last.op = "map" /\ Recv.kind = "success" /\ ~FnThrows(last.arg, Recv.data))
    => /\ ~last.out.threw
       /\ unwrap(Ret) = success(FnValue(last.arg, Recv.data))

\* C2: when the function given to map throws, or the promise of the function
\* given to mapAsync rejects, on a success chain, nothing escapes: the call
\* returns an error chain whose error has kind "unexpected", is a DataError or
\* a ServiceError, and has the thrown value as its source.
C2_ThrowIsCaught ==
  (last.op \in {"map", "mapAsync"} /\ Recv.kind = "success"
     /\ last.out.fnCalls = 1 /\ FnThrows(last.arg, Recv.data))
    => /\ ~last.out.threw
       /\ Ret.kind = "error"
       /\ Ret.error # <<>>
       /\ Ret.error[1].family \in {"DataError", "ServiceError"}
       /\ Ret.error[1].kind = "unexpected"
       /\ Ret.error[1].source # <<>>
       /\ Ret.error[1].source[1].message = "boom"

\* C3: on a chain in error state, map, mapAsync and validate never call the
\* supplied function or schema and return an error chain carrying the very
\* same error value, after any sequence of such steps.
C3_ErrorShortCircuit ==
  (last.op \in {"map", "mapAsync", "validate"} /\ Recv.kind = "error")
    => /\ last.out.fnCalls = 0
       /\ ~last.out.threw
       /\ Ret.kind = "error"
       /\ Ret.error = Recv.error

\* C3 witness: a short-circuit step on an error chain that is itself the
\* outcome of an earlier step and carries an error value.
C3_Witness ==
  /\ last.op \in {"map", "mapAsync", "validate"}
  /\ last.recv >= 2
  /\ Recv.kind = "error"
  /\ Recv.error # <<>>
  /\ Ret.error = Recv.error

\* The default kind table of the claim, spelled out.
C4_Table(k) ==
  CASE k = "not_found" -> "not_found"
    [] k = "invalid" -> "validation"
    [] k = "query" -> "unexpected"
    [] k = "connection" -> "network"
    [] k = "unexpected" -> "unexpected"

\* C4: mapErr keeps a success chain (same data), keeps a carried ServiceError,
\* and turns a DataError of kind k into a ServiceError of kind override[k] when
\* the override has k, else of the default table's kind; {query: "auth"} on a
\* query DataError gives auth, no override gives unexpected.
C4_MapErrMapping ==
  last.op = "mapErr"
    => /\ ~last.out.threw
       /\ last.ret # last.recv
       /\ Recv.kind = "success" => (Ret.kind = "success" /\ Ret.data = Recv.data)
       /\ (Recv.kind = "error" /\ Recv.error # <<>> /\ Recv.error[1].family = "ServiceError")
            => (Ret.kind = "error" /\ Ret.error = Recv.error)
       /\ (Recv.kind = "error" /\ Recv.error # <<>> /\ Recv.error[1].family = "DataError")
            => LET k == Recv.error[1].kind
                   override == last.arg[1]
               IN  /\ Ret.kind = "error"
                   /\ Ret.error # <<>>
                   /\ Ret.error[1].family = "ServiceError"
                   /\ Ret.error[1].kind =
                        IF k \in DOMAIN override THEN override[k] ELSE C4_Table(k)
                   /\ (k = "query" /\ DOMAIN override = {"query"} /\ override["query"] = "auth")
                        => Ret.error[1].kind = "auth"
                   /\ (k = "query" /\ DOMAIN override = {})
                        => Ret.error[1].kind = "unexpected"

\* C4 witness: mapErr({query: "auth"}) on a query DataError gave kind auth.
C4_Witness ==
  /\ last.op = "mapErr"
  /\ Recv.kind = "error"
  /\ Recv.error # <<>>
  /\ Recv.error[1].family = "DataError"
  /\ Recv.error[1].kind = "query"
  /\ DOMAIN last.arg[1] = {"query"}
  /\ last.arg[1]["query"] = "auth"
  /\ Ret.error[1].kind = "auth"

\* C5: validate passes the chain through without calling safeParse exactly
\* when the chain is in error state or its success data is absent; on every
\* success chain with data present it calls safeParse on that data.
C5_ValidateRunsOnPresentData ==
  last.op = "validate"
    => (last.out.fnCalls = 0 <=> (Recv.kind = "error" \/ Recv.data = "undefined"))

\* C6: when validate runs safeParse on a success chain, a reported failure
\* gives an error chain with a ServiceError of kind validation whose
\* context.validationErrors is the raw error of safeParse and no data; a
\* reported success gives a success chain whose data is the parsed value.
C6_ValidateOutcome ==
  (last.op = "validate" /\ last.out.fnCalls = 1)
    => LET validation == safeParse(last.arg, Recv.data, CallOid)
       IN  /\ ~last.out.threw
           /\ ~validation.success
                => /\ Ret.kind = "error"
                   /\ Ret.data = "undefined"
                   /\ Ret.error # <<>>
                   /\ Ret.error[1].family = "ServiceError"
                   /\ Ret.error[1].kind = "validation"
                   /\ Ret.error[1].context # <<>>
                   /\ "validationErrors" \in DOMAIN Ret.error[1].context[1]
                   /\ Ret.error[1].context[1]["validationErrors"] = validation.error
           /\ validation.success
                => /\ Ret.kind = "success"
                   /\ Ret.error = <<>>
                   /\ Ret.data = validation.data

\* C6 witness: both outcomes, on a chain whose parsed value differs from its
\* data and on a failure that carries a raw error.
C6_Witness ==
  /\ last.op = "validate"
  /\ last.out.fnCalls = 1
  /\ \/ /\ last.arg = "coerce"
        /\ Ret.kind = "success"
        /\ Ret.data # Recv.data
     \/ /\ last.arg = "rejectIssues"
        /\ Ret.kind = "error"
        /\ Ret.error[1].context[1]["validationErrors"] # <<>>

C8_LogEmitsOnce ==
  last.op = "log"
    => /\ ~last.out.threw
       /\ Ret = last.out.result
       /\ Recv.kind = "error" => last.out.loggerCalls = 1
       /\ (Recv.kind = "success" /\ Recv.data # "undefined") => last.out.loggerCalls = 1
       /\ (Recv.kind = "success" /\ Recv.data = "undefined") => last.out.loggerCalls = 0

\* C9: toServiceResult, toResult and unwrap return a value without throwing
\* on every chain; an error returned by toServiceResult is a ServiceError: the
\* carried one when the chain carries a ServiceError, otherwise a new
\* ServiceError of kind unexpected.
C9_TerminalsReturn ==
  last.op \in {"unwrap", "toResult", "toServiceResult"}
    => /\ ~last.out.threw
       /\ last.out.value.kind \in {"success", "error"}
       /\ last.out.value.kind = Recv.kind
       /\ (last.op = "toServiceResult" /\ last.out.value.kind = "error")
            => /\ last.out.value.error # <<>>
               /\ last.out.value.error[1].family = "ServiceError"
               /\ IF Recv.error # <<>> /\ Recv.error[1].family = "ServiceError"
                  THEN last.out.value.error = Recv.error
                  ELSE /\ last.out.value.error[1].kind = "unexpected"
                       /\ last.out.value.error # Recv.error

\* C9 witness: toServiceResult wrapped a carried DataError.
C9_Witness ==
  /\ last.op = "toServiceResult"
  /\ Recv.kind = "error"
  /\ Recv.error # <<>>
  /\ Recv.error[1].family = "DataError"
  /\ last.out.value.error[1].family = "ServiceError"
  /\ last.out.value.error[1].kind = "unexpected"

\* C10: enrichErrorContext on a not_found DataError with {entity: "Order",
\* id: "9"} returns, without throwing, a new error object of kind not_found
\* with message "Order not found: 9", and leaves the input error as it was.
C10_EnrichNotFound ==
  (/\ last.op \in {"enrichErrorContext", "enrichErrorContext2"}
   /\ Recv.error # <<>>
   /\ Recv.error[1].family = "DataError"
   /\ Recv.error[1].kind = "not_found"
   /\ DOMAIN last.arg = {"entity", "id"}
   /\ last.arg["entity"] = "Order"
   /\ last.arg["id"] = "9")
    => /\ ~last.out.threw
       /\ last.out.error # <<>>
       /\ last.out.error[1].oid # Recv.error[1].oid
       /\ last.out.error[1].family = "DataError"
       /\ last.out.error[1].kind = "not_found"
       /\ last.out.error[1].message = "Order not found: 9"

\* -------------------------------------------- mapErr over every override map
\* Every partial map DataErrorKind -> ServiceErrorKind with at most
\* MaxOverrideKeys keys.
ErrorMaps ==
  UNION {[D -> ServiceErrorKind] :
           D \in {X \in SUBSET DataErrorKind : Cardinality(X) <= MaxOverrideKeys}}

MapErrAny(errorMap, defaultMessage) ==
  /\ Len(chains) = 1
  /\ MapErr(1, errorMap, defaultMessage)

NextMapErr ==
  \/ \E result \in InputResults : chain(result)
  \/ \E errorMap \in ErrorMaps, defaultMessage \in DefaultMessages :
        MapErrAny(errorMap, defaultMessage)

SpecMapErr == Init /\ [][NextMapErr]_vars

\* C11: for every DataError or ServiceError e of every kind and every
\* additional context a, enrichErrorContext(e, a) returns a new error of e's
\* family and kind whose context is e's context merged with a (a's keys
\* winning) and whose source is e's source; for every kind other than
\* not_found its message is e's message.
C11_EnrichMergesContext ==
  (/\ last.op \in {"enrichErrorContext", "enrichErrorContext2"}
   /\ Recv.error # <<>>
   /\ Recv.error[1].family \in {"DataError", "ServiceError"})
    => LET e == Recv.error[1]
           a == last.arg
           old == IF e.context = <<>> THEN [k \in {} |-> ""] ELSE e.context[1]
       IN  /\ ~last.out.threw
           /\ last.out.error # <<>>
           /\ last.out.error[1].oid # e.oid
           /\ last.out.error[1].family = e.family
           /\ last.out.error[1].kind = e.kind
           /\ last.out.error[1].source = e.source
           /\ last.out.error[1].context # <<>>
           /\ DOMAIN last.out.error[1].context[1] = (DOMAIN old) \union (DOMAIN a)
           /\ \A k \in (DOMAIN old) \union (DOMAIN a) :
                last.out.error[1].context[1][k] = IF k \in DOMAIN a THEN a[k] ELSE old[k]
           /\ e.kind # "not_found" => last.out.error[1].message = e.message

\* --------------------------------------------------------- claims on retry
\* The invocations of the operation retry has started.
Invocations == Len(rt.results) + rt.inflight

\* Every invocation so far resolved to an error result.
AllFailed ==
  \A i \in 1..Len(rt.results) :
    ~rt.results[i].rejects /\ rt.results[i].result.kind = "error"

\* C12: retry runs one invocation at a time, makes no invocation after a
\* success or after shouldRetry answered false, and never more than
\* maxAttempts invocations; with maxAttempts = 3, an operation that always
\* fails and the default shouldRetry it makes exactly 3 invocations and returns
\* the last error result; with shouldRetry false on attempt 1 exactly 1.
C12_RetryAttempts ==
  /\ rt.inflight <= 1
  /\ rt.pc = "idle" \/ Invocations <= maxAttempts(rt.options)
  /\ \A i \in 1..Len(rt.results) :
       (~rt.results[i].rejects /\ rt.results[i].result.kind = "success") => Invocations = i
  /\ \A j \in 1..Len(rt.shouldRetryCalls) :
       ~rt.shouldRetryCalls[j].answer => Invocations = rt.shouldRetryCalls[j].attempt
  /\ (rt.pc = "done" /\ maxAttempts(rt.options) = 3 /\ rt.options.shouldRetry = <<>> /\ AllFailed)
       => /\ Len(rt.results) = 3
          /\ ~rt.rejected
          /\ rt.returned = <<rt.results[3].result>>
  /\ (rt.pc = "done" /\ maxAttempts(rt.options) = 3 /\ rt.options.shouldRetry = <<"never">> /\ AllFailed)
       => /\ Len(rt.results) = 1
          /\ rt.returned = <<rt.results[1].result>>

\* C12 witness: three failed invocations under maxAttempts = 3 and the default
\* shouldRetry, and retry has returned.
C12_Witness ==
  /\ rt.pc = "done"
  /\ maxAttempts(rt.options) = 3
  /\ rt.options.shouldRetry = <<>>
  /\ Len(rt.results) = 3
  /\ AllFailed
  /\ rt.returned = <<rt.results[3].result>>

\* C13: whatever the operation, the options and the outcomes of the attempts,
\* retry never rejects and returns the result of the last invocation of the
\* operation.
C13_RetryReturnsLastResult ==
  rt.pc = "done"
    => /\ ~rt.rejected
       /\ rt.returned # <<>>
       /\ Len(rt.results) >= 1
       /\ ~rt.results[Len(rt.results)].rejects
       /\ rt.returned[1] = rt.results[Len(rt.results)].result

\* delayMs * backoffFactor^(n-1), written out for the attempts of the model
C20_Delay(d, b, n) ==
  CASE n = 1 -> d
    [] n = 2 -> d * b
    [] n = 3 -> d * b * b
    [] n = 4 -> d * b * b * b
    [] OTHER -> d * b * b * b * b

\* C20: a delay happens only after a failed attempt n < maxAttempts for which
\* shouldRetry(error, n) answered true, before attempt n+1, and lasts
\* delayMs * backoffFactor^(n-1); shouldRetry is not called and no delay
\* happens after a success or after attempt maxAttempts.
C20_RetryDelays ==
  /\ \A i \in 1..Len(rt.delays) :
       LET n == rt.delays[i].attempt
       IN  /\ n = i
           /\ n < maxAttempts(rt.options)
           /\ n <= Len(rt.results)
           /\ ~rt.results[n].rejects
           /\ rt.results[n].result.kind = "error"
           /\ \E j \in 1..Len(rt.shouldRetryCalls) :
                /\ rt.shouldRetryCalls[j].attempt = n
                /\ rt.shouldRetryCalls[j].answer
                /\ rt.shouldRetryCalls[j].error = rt.results[n].result.error
           /\ rt.delays[i].ms =
                C20_Delay(delayMs(rt.options), backoffFactor(rt.options), n)
  /\ Invocations <= Len(rt.delays) + 1
  /\ rt.pc = "sleeping" => Len(rt.delays) = Len(rt.results)
  /\ rt.pc \in {"awaitOperation", "done"} => Len(rt.delays) = Invocations - 1 \/ Invocations = 0
  /\ \A j \in 1..Len(rt.shouldRetryCalls) :
       LET n == rt.shouldRetryCalls[j].attempt
       IN  /\ n = j
           /\ n < maxAttempts(rt.options)
           /\ ~rt.results[n].rejects
           /\ rt.results[n].result.kind = "error"

\* C20 witness: two delays of 100 and 300 ms (delayMs 100, backoffFactor 3)
\* and a third attempt after them.
C20_Witness ==
  /\ rt.pc = "done"
  /\ Len(rt.delays) = 2
  /\ rt.delays[1].ms = 100
  /\ rt.delays[2].ms = 300
  /\ Len(rt.results) = 3
  /\ Len(rt.shouldRetryCalls) = 2

\* ------------------------------------------------- combineResults, combine2
MaxResults == 3

\* results.find(result => result.kind === "error"): the index of the first
\* error result, 0 when there is none
FindError(results) ==
  LET errors == {i \in 1..Len(results) : results[i].kind = "error"}
  IN  IF errors = {} THEN 0
      ELSE CHOOSE i \in errors : \A j \in errors : i <= j

combineResults(results) ==
  LET errorResult == FindError(results)
  IN  IF errorResult # 0
      THEN results[errorResult]
      ELSE [kind |-> "success",
            data |-> [i \in 1..Len(results) |-> results[i].data],
            error |-> <<>>]

\* combine2 testing its second argument first
combine2_rightFirst(result1, result2) ==
  IF result2.kind = "error" THEN ErrorResult(result2.error)
  ELSE IF result1.kind = "error" THEN ErrorResult(result1.error)
  ELSE [kind |-> "success", data |-> <<result1.data, result2.data>>, error |-> <<>>]

combine2(result1, result2) ==
  IF result1.kind = "error" THEN ErrorResult(result1.error)
  ELSE IF result2.kind = "error" THEN ErrorResult(result2.error)
  ELSE [kind |-> "success", data |-> <<result1.data, result2.data>>, error |-> <<>>]

\* The results handed to the combinators: success and error results built by
\* success(), dataError() and serviceError(); every error is its own object.
CombineInputs ==
  {success("one"), success("two"), success("undefined"),
   dataError(DataError_query(1, "query failed", NoOptions)),
   dataError(DataError_connection(2, "no route", NoOptions)),
   serviceError(ServiceError_auth(3, "denied", NoOptions))}

ResultLists == UNION {[1..n -> CombineInputs] : n \in 0..MaxResults}

Combined(op, arg, value) ==
  /\ last' = [op |-> op, recv |-> 0, arg |-> arg, ret |-> 0,
              out |-> [threw |-> FALSE, escaped |-> <<>>, value |-> value]]
  /\ UNCHANGED <<chains, pending, rt, api>>

CombineResults(results) == Combined("combineResults", results, combineResults(results))

Combine2(result1, result2) ==
  Combined("combine2", <<result1, result2>>, combine2(result1, result2))

NextCombine ==
  \/ \E results \in ResultLists : CombineResults(results)
  \/ \E result1 \in CombineInputs, result2 \in CombineInputs : Combine2(result1, result2)

SpecCombine == Init /\ [][NextCombine]_vars

\* C14: combineResults returns the first error result of the list when there
\* is one, else a success whose data lists the inputs' data in input order;
\* combine2(r1, r2) gives the outcome combineResults gives for [r1, r2], so
\* r1's error when both are errors.
C14_CombineFirstError ==
  /\ last.op = "combineResults"
       => LET results == last.arg
              value == last.out.value
          IN  IF \E i \in 1..Len(results) : results[i].kind = "error"
              THEN \E i \in 1..Len(results) :
                     /\ results[i].kind = "error"
                     /\ \A j \in 1..(i - 1) : results[j].kind = "success"
                     /\ value = results[i]
              ELSE /\ value.kind = "success"
                   /\ value.error = <<>>
                   /\ Len(value.data) = Len(results)
                   /\ \A i \in 1..Len(results) : value.data[i] = results[i].data
  /\ last.op = "combine2"
       => LET r1 == last.arg[1]
              r2 == last.arg[2]
              value == last.out.value
          IN  /\ value = combineResults(<<r1, r2>>)
              /\ (r1.kind = "error" /\ r2.kind = "error")
                   => (value.kind = "error" /\ value.error = r1.error)
              /\ (r1.kind = "success" /\ r2.kind = "error")
                   => (value.kind = "error" /\ value.error = r2.error)
              /\ (r1.kind = "success" /\ r2.kind = "success")
                   => (value.kind = "success" /\ value.data = <<r1.data, r2.data>>)

\* C14 witness: combine2 on two different errors returned the left one.
C14_Witness ==
  /\ last.op = "combine2"
  /\ last.arg[1].kind = "error"
  /\ last.arg[2].kind = "error"
  /\ last.arg[1].error # last.arg[2].error
  /\ last.out.value.error = last.arg[1].error

\* C15: fromApiResponse never rejects; ok = false gives a query DataError
\* whose context holds status and statusText, plus body when json() resolved;
\* ok = true with json() rejecting gives a connection DataError; ok = true with
\* the parser throwing on the body gives an invalid DataError whose context
\* holds the body; otherwise success with the parser's output.
C15_ApiClassification ==
  api.pc = "done"
    => LET res == api.returned[1]
           outcome == api.json[1]
           error == res.error[1]
       IN  /\ ~api.rejected
           /\ api.returned # <<>>
           /\ ~api.response.ok
                => /\ res.kind = "error"
                   /\ error.family = "DataError"
                   /\ error.kind = "query"
                   /\ error.context[1]["status"] = <<api.response.status>>
                   /\ error.context[1]["statusText"] = <<api.response.statusText>>
                   /\ IF outcome.rejects
                      THEN DOMAIN error.context[1] = {"status", "statusText"}
                      ELSE /\ DOMAIN error.context[1] = {"status", "statusText", "body"}
                           /\ error.context[1]["body"] = <<outcome.body>>
                   /\ api.parserCalls = 0
           /\ (api.response.ok /\ outcome.rejects)
                => /\ res.kind = "error"
                   /\ error.family = "DataError"
                   /\ error.kind = "connection"
                   /\ api.parserCalls = 0
           /\ (api.response.ok /\ ~outcome.rejects /\ FnThrows(api.parser, outcome.body))
                => /\ res.kind = "error"
                   /\ error.family = "DataError"
                   /\ error.kind = "invalid"
                   /\ error.context # <<>>
                   /\ \E k \in DOMAIN error.context[1] : error.context[1][k] = <<outcome.body>>
           /\ (api.response.ok /\ ~outcome.rejects /\ ~FnThrows(api.parser, outcome.body))
                => res = success(FnValue(api.parser, outcome.body))

\* C15 witness: an ok response whose body the parser rejected.
C15_Witness ==
  /\ api.pc = "done"
  /\ api.response.ok
  /\ ~api.json[1].rejects
  /\ api.parser = "throwOnTwo"
  /\ api.json[1].body = "two"
  /\ api.returned[1].error[1].kind = "invalid"

\* ------------------------------------------------------------ strings, JSON
\* Strings are TLA+ strings; a character is a string of length one.
UpperCaseLetters == "ABCDEFGHIJKLMNOPQRSTUVWXYZ"

LowerCaseLetters == "abcdefghijklmnopqrstuvwxyz"

CharAt(s, i) == SubSeq(s, i, i)

\* the class [A-Z], each letter with its lower-case form
LowerCaseOf ==
  [c \in {CharAt(UpperCaseLetters, i) : i \in 1..Len(UpperCaseLetters)} |->
     CharAt(LowerCaseLetters,
            CHOOSE i \in 1..Len(UpperCaseLetters) : CharAt(UpperCaseLetters, i) = c)]

\* the class [a-z], each letter with its upper-case form
UpperCaseOf ==
  [c \in {CharAt(LowerCaseLetters, i) : i \in 1..Len(LowerCaseLetters)} |->
     CharAt(UpperCaseLetters,
            CHOOSE i \in 1..Len(LowerCaseLetters) : CharAt(LowerCaseLetters, i) = c)]

IsUpperCase(c) == c \in DOMAIN LowerCaseOf

IsLowerCase(c) == c \in DOMAIN UpperCaseOf

LetterToLowerCase(c) == IF IsUpperCase(c) THEN LowerCaseOf[c] ELSE c

LetterToUpperCase(c) == IF IsLowerCase(c) THEN UpperCaseOf[c] ELSE c

RECURSIVE toLowerCase(_)
toLowerCase(s) ==
  IF s = "" THEN "" ELSE LetterToLowerCase(CharAt(s, 1)) \o toLowerCase(Tail(s))

\* s.includes(f)
includes(s, f) == \E i \in 1..(Len(s) - Len(f) + 1) : SubSeq(s, i, i + Len(f) - 1) = f

\* A JavaScript value as a tree: the tag t, then s (the text of a string or a
\* number), e (the entries <<key, value>> of an object or an array, in
\* insertion order; an array's keys are its indices) and id (of a reference).
Str(s) == [t |-> "string", s |-> s, e |-> <<>>, id |-> 0]

Num(n) == [t |-> "number", s |-> n, e |-> <<>>, id |-> 0]

Null == [t |-> "null", s |-> "null", e |-> <<>>, id |-> 0]

Obj(entries) == [t |-> "object", s |-> "", e |-> entries, id |-> 0]

Arr(items) ==
  [t |-> "array", s |-> "",
   e |-> [i \in 1..Len(items) |-> <<ToString(i - 1), items[i]>>], id |-> 0]

IsObjectLike(x) == x.t \in {"object", "array"}

\* The same values in a heap, where objects have identity: a heap is a
\* sequence of objects, a reference holds an index into it.
Ref(id) == [t |-> "ref", s |-> "", e |-> <<>>, id |-> id]

RECURSIVE Alloc(_, _), AllocProps(_, _, _, _)
AllocProps(h, id, entries, i) ==
  IF i > Len(entries) THEN [heap |-> h, value |-> Ref(id)]
  ELSE LET r == Alloc(h, entries[i][2])
       IN  AllocProps([r.heap EXCEPT ![id].props = Append(@, <<entries[i][1], r.value>>)],
                      id, entries, i + 1)

\* builds the tree x in the heap h
Alloc(h, x) ==
  IF ~IsObjectLike(x) THEN [heap |-> h, value |-> x]
  ELSE AllocProps(Append(h, [isArray |-> x.t = "array", props |-> <<>>]),
                  Len(h) + 1, x.e, 1)

\* the tree a heap value stands for
RECURSIVE Read(_, _)
Read(h, x) ==
  IF x.t # "ref" THEN x
  ELSE [t |-> IF h[x.id].isArray THEN "array" ELSE "object",
        s |-> "",
        e |-> [i \in 1..Len(h[x.id].props) |->
                 <<h[x.id].props[i][1], Read(h, h[x.id].props[i][2])>>],
        id |-> 0]

\* Trees of nesting depth at most d over the given keys and leaves: objects
\* of one entry and arrays of one item.
MaxDepth == 2

RECURSIVE Trees(_, _, _)
Trees(keys, leaves, d) ==
  IF d = 0 THEN leaves
  ELSE LET inner == Trees(keys, leaves, d - 1)
       IN  inner
             \union {Obj(<<<<k, x>>>>) : k \in keys, x \in inner}
             \union {Arr(<<x>>) : x \in inner}

\* objects of two entries under different keys
TwoEntries(keys, leaves) ==
  {Obj(<<<<e[1], e[2]>>, <<e[3], e[4]>>>>) :
     e \in {f \in keys \X leaves \X keys \X leaves : f[1] # f[3]}}

\* --------------------------------------------------------------- maskSensitive
sensitiveFields ==
  <<"password", "secret", "token", "accessToken", "refreshToken", "key",
    "apiKey", "credential", "auth">>

\* field.toLowerCase(), for every field of the list
sensitiveFieldsLowerCase ==
  [j \in 1..Len(sensitiveFields) |-> toLowerCase(sensitiveFields[j])]

\* sensitiveFields.some(field => key.toLowerCase().includes(field.toLowerCase()))
IsSensitiveKey(key) ==
  LET lower == toLowerCase(key)
  IN  \E j \in 1..Len(sensitiveFields) : includes(lower, sensitiveFieldsLowerCase[j])

\* the replacement of a sensitive string
MaskValue(value) ==
  IF Len(value) > 8
  THEN SubSeq(value, 1, 4) \o "..." \o SubSeq(value, Len(value) - 3, Len(value))
  ELSE "********"

\* `!data`
Falsy(data) ==
  \/ data.t = "null"
  \/ data.t = "string" /\ data.s = ""
  \/ data.t = "number" /\ data.s = "0"

RECURSIVE maskSensitive(_, _), MaskProps(_, _, _), MaskItems(_, _, _, _)
\* for (const key in masked) { ... }, from the i-th key on
MaskProps(h, masked, i) ==
  IF i > Len(h[masked].props) THEN [heap |-> h, value |-> Ref(masked)]
  ELSE LET key == h[masked].props[i][1]
           value == h[masked].props[i][2]
       IN  IF IsSensitiveKey(key)
           THEN IF value.t = "string"
                THEN MaskProps([h EXCEPT ![masked].props[i][2] = Str(MaskValue(value.s))],
                               masked, i + 1)
                ELSE MaskProps(h, masked, i + 1)
           ELSE IF value.t = "ref"
                THEN LET r == maskSensitive(h, value)
                     IN  MaskProps([r.heap EXCEPT ![masked].props[i][2] = r.value],
                                   masked, i + 1)
                ELSE MaskProps(h, masked, i + 1)

\* data.map(item => maskSensitive(item)), from the i-th item on
MaskItems(h, data, mapped, i) ==
  IF i > Len(h[data].props) THEN [heap |-> h, value |-> Ref(mapped)]
  ELSE LET r == maskSensitive(h, h[data].props[i][2])
       IN  MaskItems([r.heap EXCEPT ![mapped].props =
                                       Append(@, <<h[data].props[i][1], r.value>>)],
                     data, mapped, i + 1)

\* maskSensitive writing into its argument: `masked = data` for `{ ...data }`
maskSensitive_inPlace(h, data) ==
  IF Falsy(data) THEN [heap |-> h, value |-> data]
  ELSE IF data.t = "ref" /\ h[data.id].isArray
  THEN MaskItems(Append(h, [isArray |-> TRUE, props |-> <<>>]), data.id, Len(h) + 1, 1)
  ELSE IF data.t = "ref"
  THEN MaskProps(h, data.id, 1)
  ELSE [heap |-> h, value |-> data]

maskSensitive(h, data) ==
  IF Falsy(data) THEN [heap |-> h, value |-> data]
  ELSE IF data.t = "ref" /\ h[data.id].isArray
  THEN MaskItems(Append(h, [isArray |-> TRUE, props |-> <<>>]), data.id, Len(h) + 1, 1)
  ELSE IF data.t = "ref"
  THEN MaskProps(Append(h, [isArray |-> FALSE, props |-> h[data.id].props]), Len(h) + 1, 1)
  ELSE [heap |-> h, value |-> data]

\* Inputs: keys that name a denylist word, spell one in another case, hold
\* one inside a longer word, or hold none; strings around the length 8.
MaskKeys == {"password", "AUTH", "monkey", "name"}

MaskLeaves == {Str(""), Str("12345678"), Str("abcdefgh12"), Num("1"), Null}

MaskInputs ==
  Trees(MaskKeys, MaskLeaves, MaxDepth)
    \union TwoEntries(MaskKeys, {Str("12345678"), Str("abcdefgh12"), Null})

\* One call in a behaviour: the function keeps nothing between calls.
MaskSensitive(x) ==
  /\ last.op = "none"
  /\ LET a == Alloc(<<>>, x)
         r == maskSensitive(a.heap, a.value)
     IN  last' = [op |-> "maskSensitive", recv |-> 0, arg |-> x, ret |-> 0,
                  out |-> [heapBefore |-> a.heap, data |-> a.value,
                           heap |-> r.heap, value |-> r.value]]
  /\ UNCHANGED <<chains, pending, rt, api>>

\* log's success branch on data held in the heap: the `data` of the output
\* handed to the logger
LogOutputData(h, data, maskSensitiveData) ==
  IF maskSensitiveData THEN maskSensitive(h, data) ELSE [heap |-> h, value |-> data]

\* chain(success(x)).log(meta, {maskSensitiveData, logger}), x not undefined
LogSuccess(x, maskSensitiveData) ==
  /\ last.op = "none"
  /\ LET a == Alloc(<<>>, x)
         r == LogOutputData(a.heap, a.value, maskSensitiveData)
     IN  last' = [op |-> "log", recv |-> 0, arg |-> x, ret |-> 0,
                  out |-> [heapBefore |-> a.heap, data |-> a.value,
                           heap |-> r.heap, value |-> r.value,
                           maskSensitiveData |-> maskSensitiveData]]
  /\ UNCHANGED <<chains, pending, rt, api>>

NextMask ==
  \/ \E x \in MaskInputs : MaskSensitive(x)
  \/ \E x \in MaskInputs, maskSensitiveData \in BOOLEAN : LogSuccess(x, maskSensitiveData)

SpecMask == Init /\ [][NextMask]_vars

\* The places of a tree: the positions of the entries to follow from the root.
RECURSIVE Paths(_)
Paths(x) ==
  {<<>>} \union
    (IF IsObjectLike(x)
     THEN UNION {{<<i>> \o p : p \in Paths(x.e[i][2])} : i \in 1..Len(x.e)}
     ELSE {})

RECURSIVE HasPath(_, _)
HasPath(x, p) ==
  \/ p = <<>>
  \/ /\ IsObjectLike(x)
     /\ p[1] <= Len(x.e)
     /\ HasPath(x.e[p[1]][2], Tail(p))

RECURSIVE At(_, _)
At(x, p) == IF p = <<>> THEN x ELSE At(x.e[p[1]][2], Tail(p))

\* the key under which the value at the place p (not the root) is held
KeyAt(x, p) == At(x, SubSeq(p, 1, Len(p) - 1)).e[p[Len(p)]][1]

\* some value enclosing the place p is held under a sensitive key
UnderSensitive(x, p) ==
  \E n \in 1..(Len(p) - 1) : IsSensitiveKey(KeyAt(x, SubSeq(p, 1, n)))

C16_Expected(s) ==
  IF Len(s) > 8 THEN SubSeq(s, 1, 4) \o "..." \o SubSeq(s, Len(s) - 3, Len(s))
  ELSE "********"

\* What maskSensitive returned and left behind, at the places in `places`.
C16_At(places) ==
  LET x == last.arg
      y == Read(last.out.heap, last.out.value)
  IN  /\ \A p \in places :
           /\ HasPath(y, p)
           /\ KeyAt(y, p) = KeyAt(x, p)
           /\ (IsSensitiveKey(KeyAt(x, p)) /\ At(x, p).t = "string")
                => At(y, p) = Str(C16_Expected(At(x, p).s))
           /\ (~IsSensitiveKey(KeyAt(x, p)) /\ ~IsObjectLike(At(x, p)))
                => At(y, p) = At(x, p)
      /\ SubSeq(last.out.heap, 1, Len(last.out.heapBefore)) = last.out.heapBefore
      /\ Read(last.out.heap, last.out.data) = x

CamelLetter(letter) == LetterToUpperCase(letter)

\* str.replace(/_([a-z])/g, (_, letter) => letter.toUpperCase())
RECURSIVE snakeToCamel(_)
snakeToCamel(str) ==
  IF str = "" THEN ""
  ELSE IF Len(str) >= 2 /\ CharAt(str, 1) = "_" /\ IsLowerCase(CharAt(str, 2))
  THEN CamelLetter(CharAt(str, 2)) \o snakeToCamel(SubSeq(str, 3, Len(str)))
  ELSE CharAt(str, 1) \o snakeToCamel(Tail(str))

\* the replacement keeping the letter's case
SnakeLetter_keepsCase(letter) == "_" \o letter

\* the replacement of one match of /[A-Z]/
SnakeLetter(letter) == "_" \o LetterToLowerCase(letter)

\* str.replace(/[A-Z]/g, letter => `_${letter.toLowerCase()}`)
RECURSIVE camelToSnake(_)
camelToSnake(str) ==
  IF str = "" THEN ""
  ELSE IF IsUpperCase(CharAt(str, 1))
  THEN SnakeLetter(CharAt(str, 1)) \o camelToSnake(Tail(str))
  ELSE CharAt(str, 1) \o camelToSnake(Tail(str))

\* transformer(key)
Transformed(transformer, key) ==
  IF transformer = "snakeToCamel" THEN snakeToCamel(key) ELSE camelToSnake(key)

\* acc[key] = value on a plain object: a key already there keeps its place
SetEntry(acc, key, value) ==
  IF \E j \in 1..Len(acc) : acc[j][1] = key
  THEN [j \in 1..Len(acc) |-> IF acc[j][1] = key THEN <<key, value>> ELSE acc[j]]
  ELSE Append(acc, <<key, value>>)

RECURSIVE transformKeys(_, _, _), ReduceEntries(_, _, _, _, _)
\* Object.entries(data).reduce(..., {}), from the i-th entry on
ReduceEntries(entries, transformer, deep, acc, i) ==
  IF i > Len(entries) THEN acc
  ELSE LET key == entries[i][1]
           value == entries[i][2]
           transformedKey == Transformed(transformer, key)
       IN  ReduceEntries(entries, transformer, deep,
             SetEntry(acc, transformedKey,
                      IF deep /\ IsObjectLike(value)
                      THEN transformKeys(value, transformer, deep)
                      ELSE value),
             i + 1)

transformKeys(data, transformer, deep) ==
  IF data.t = "array"
  THEN [data EXCEPT !.e = [i \in 1..Len(data.e) |->
                             <<data.e[i][1],
                               IF IsObjectLike(data.e[i][2])
                               THEN transformKeys(data.e[i][2], transformer, deep)
                               ELSE data.e[i][2]>>]]
  ELSE IF data.t # "object" THEN data
  ELSE Obj(ReduceEntries(data.e, transformer, deep, <<>>, 1))

transformToCamelCase(data) == transformKeys(data, "snakeToCamel", TRUE)

transformToSnakeCase(data) == transformKeys(data, "camelToSnake", TRUE)

\* Inputs: snake_case and camelCase keys, an underscore before a digit and
\* before a capital, and keys with a leading or a doubled underscore.
CaseKeys == {"user_id", "userId", "a_1", "user_ID", "URL", "id", "_x", "a__b"}

CaseLeaves == {Str("1"), Null}

CaseInputs ==
  Trees(CaseKeys, CaseLeaves, MaxDepth) \union TwoEntries(CaseKeys, CaseLeaves)

\* A call of op on a fresh input, or on the value the other transform just
\* returned for a fresh input (out.origin then holds that input).
TransformCall(op, other, x, value) ==
  /\ \/ /\ last.op = "none"
        /\ x \in CaseInputs
        /\ last' = [op |-> op, recv |-> 0, arg |-> x, ret |-> 0,
                    out |-> [value |-> value, origin |-> <<>>]]
     \/ /\ last.op = other
        /\ last.out.origin = <<>>
        /\ x = last.out.value
        /\ last' = [op |-> op, recv |-> 0, arg |-> x, ret |-> 0,
                    out |-> [value |-> value, origin |-> <<last.arg>>]]
  /\ UNCHANGED <<chains, pending, rt, api>>

TransformToCamelCase(x) ==
  TransformCall("transformToCamelCase", "transformToSnakeCase", x, transformToCamelCase(x))

TransformToSnakeCase(x) ==
  TransformCall("transformToSnakeCase", "transformToCamelCase", x, transformToSnakeCase(x))

CaseArguments ==
  CaseInputs \union (IF last.op \in {"transformToCamelCase", "transformToSnakeCase"}
                     THEN {last.out.value} ELSE {})

NextCase ==
  \/ \E x \in CaseArguments : TransformToCamelCase(x)
  \/ \E x \in CaseArguments : TransformToSnakeCase(x)

SpecCase == Init /\ [][NextCase]_vars

\* the keys of the mappings of a tree, at every depth
RECURSIVE KeysOf(_)
KeysOf(x) ==
  IF ~IsObjectLike(x) THEN {}
  ELSE (IF x.t = "object" THEN {x.e[i][1] : i \in 1..Len(x.e)} ELSE {})
         \union UNION {KeysOf(x.e[i][2]) : i \in 1..Len(x.e)}

C17_Digits == "0123456789"

\* ASCII letters, digits and underscores; no leading, trailing or
\* consecutive underscore
C17_Restricted(key) ==
  /\ key # ""
  /\ \A i \in 1..Len(key) :
       \/ IsUpperCase(CharAt(key, i))
       \/ IsLowerCase(CharAt(key, i))
       \/ includes(C17_Digits, CharAt(key, i))
       \/ CharAt(key, i) = "_"
  /\ CharAt(key, 1) # "_"
  /\ CharAt(key, Len(key)) # "_"
  /\ ~includes(key, "__")

C17_InDomain(x) == x.t = "object" /\ \A key \in KeysOf(x) : C17_Restricted(key)

\* the second call of a round trip that began with op on an input of the domain
C17_RoundTripFrom(op) ==
  /\ last.op # op
  /\ last.op \in {"transformToCamelCase", "transformToSnakeCase"}
  /\ last.out.origin # <<>>
  /\ C17_InDomain(last.out.origin[1])

\* C17: for every mapping whose keys use only ASCII letters, digits and
\* underscores with no leading, trailing or consecutive underscore,
\* transformToSnakeCase(transformToCamelCase(x)) = x and
\* transformToCamelCase(transformToSnakeCase(x)) = x, at every depth.
C17_RoundTrip ==
  /\ C17_RoundTripFrom("transformToCamelCase") => last.out.value = last.out.origin[1]
  /\ C17_RoundTripFrom("transformToSnakeCase") => last.out.value = last.out.origin[1]

\* C17 amended: snake(camel(x)) = x when, further, no key of x holds an
\* upper-case letter; camel(snake(x)) = x when no key of x holds an
\* underscore.
C17_RoundTripByCase ==
  /\ (/\ C17_RoundTripFrom("transformToCamelCase")
      /\ \A key \in KeysOf(last.out.origin[1]) :
           \A i \in 1..Len(key) : ~IsUpperCase(CharAt(key, i)))
       => last.out.value = last.out.origin[1]
  /\ (/\ C17_RoundTripFrom("transformToSnakeCase")
      /\ \A key \in KeysOf(last.out.origin[1]) : ~includes(key, "_"))
       => last.out.value = last.out.origin[1]

\* C17 witness: a nested snake_case mapping went to camelCase and came back.
C17_Witness ==
  /\ last.op = "transformToSnakeCase"
  /\ last.out.origin = <<Obj(<<<<"user_id", Obj(<<<<"a_1", Str("1")>>>>)>>>>)>>
  /\ last.arg = Obj(<<<<"userId", Obj(<<<<"a_1", Str("1")>>>>)>>>>)
  /\ last.out.value = last.out.origin[1]

\* a result with exactly one field set for its tag, data present
C18_WellFormed(r) ==
  \/ r.kind = "success" /\ r.data # "undefined" /\ r.error = <<>>
  \/ r.kind = "error" /\ r.error # <<>> /\ r.data = "undefined"

\* C18: every result held by a chain reached by map, mapAsync, mapErr,
\* validate and log from a well-formed result has exactly one field set for
\* its tag: a success holds no error (its data may be a transform's undefined
\* return value), an error holds an error value and no data.
C18_OneFieldPerTag ==
  (Len(chains) >= 1 /\ C18_WellFormed(chains[1]))
    => \A c \in 1..Len(chains) :
         \/ chains[c].kind = "success" /\ chains[c].error = <<>>
         \/ chains[c].kind = "error" /\ chains[c].error # <<>> /\ chains[c].data = "undefined"

\* C19: no two mapAsync transforms started on the same chain are in progress
\* at the same time.
C19_NoOverlap ==
  \A i \in 1..Len(pending), j \in 1..Len(pending) :
    i # j => pending[i].recv # pending[j].recv

\* C19 amended: a mapAsync transform is in progress only on a chain that
\* exists, so one started on the chain another mapAsync returned begins after
\* that one resolved; transforms started on the same chain may be in progress
\* together, and each settles on its own: it leaves the other transforms in
\* progress, changes no existing chain, and when fn does not throw resolves
\* to a new chain holding fn of the receiver's data.
C19_OverlapIndependent ==
  [][/\ \A i \in 1..Len(pending) :
          /\ pending[i].recv \in 1..Len(chains)
          /\ chains[pending[i].recv].kind = "success"
     /\ Len(pending') < Len(pending)
          => \E i \in 1..Len(pending) :
               LET p == pending[i]
                   r == chains[p.recv]
               IN  /\ pending' = [j \in 1..(Len(pending) - 1) |->
                                    IF j < i THEN pending[j] ELSE pending[j + 1]]
                   /\ last'.op = "mapAsync"
                   /\ last'.recv = p.recv
                   /\ last'.arg = p.fn
                   /\ \A c \in 1..Len(chains) : chains'[c] = chains[c]
                   /\ ~FnThrows(p.fn, r.data)
                        => /\ last'.ret = Len(chains) + 1
                           /\ chains'[last'.ret] = success(FnValue(p.fn, r.data))]_vars

\* C19 witness: of two transforms in progress on chain 1, one has resolved to a
\* new chain while the other is still in progress.
C19_Witness ==
  /\ last.op = "mapAsync"
  /\ last.recv = 1
  /\ last.ret = 2
  /\ Len(pending) = 1
  /\ pending[1].recv = 1

\* C21: in what maskSensitive returns, and in the success data log hands to
\* the logger with maskSensitiveData on, every string held under a sensitive
\* key at any depth has a masked form ("********", or first 4 + "..." + last
\* 4), strings inside objects held under a sensitive key included.
C21_NoSensitiveStringEmitted ==
  (\/ last.op = "maskSensitive"
   \/ last.op = "log" /\ last.out.maskSensitiveData)
    => LET x == last.arg
           y == Read(last.out.heap, last.out.value)
       IN  \A p \in Paths(x) \ {<<>>} :
             (IsSensitiveKey(KeyAt(x, p)) /\ At(x, p).t = "string")
               => /\ HasPath(y, p)
                  /\ At(y, p).t = "string"
                  /\ LET s == At(x, p).s
                     IN  \/ At(y, p).s = "********"
                         \/ /\ Len(s) >= 4
                            /\ At(y, p).s =
                                 SubSeq(s, 1, 4) \o "..." \o SubSeq(s, Len(s) - 3, Len(s))

====
